---- MODULE Spec2Model ----
(***************************************************************************)
(* Gesture-to-cursor control engine of the App component                   *)
(* (src/unnamed/part_002): the per-frame loop predictWebcam with its       *)
(* coordinate mapper, snap resolver, pinch-click synthesis and fist-drag   *)
(* controller, plus the handlers that start/stop the loop and write the    *)
(* panel layout.                                                           *)
(*                                                                         *)
(* Units: screen coordinates are integer pixels; landmark coordinates are  *)
(* thousandths of the normalized camera range [0,1]; the sensitivity is in *)
(* tenths.  Distances are compared squared (sqrt is monotone).  Frame      *)
(* inputs are restricted to landmark positions for which the floating      *)
(* point arithmetic of the mapper is exact on these integers.              *)
(***************************************************************************)
EXTENDS Integers, Sequences, FiniteSets, TLC

VARIABLES
    isVideoOn,              \* isVideoOn / isVideoOnRef.current
    raf,                    \* pending requestAnimationFrame(predictWebcam) callbacks,
                            \* each the isPinching value its closure captured
    handLandmarker,         \* handLandmarkerRef.current # null
    isHandTrackingEnabled,  \* isHandTrackingEnabled / its ref
    isModularMode,          \* isModularMode / its ref (layout edit mode)
    cadData,                \* cadData # null (the #cad panel is rendered)
    smoothedCursorPos,      \* smoothedCursorPosRef.current
    snapState,              \* snapStateRef.current
    highlighted,            \* elements carrying the snap-highlight styling
    cursorPos,              \* cursorPos (React state)
    isPinching,             \* isPinching (React state)
    activeDragElement,      \* activeDragElementRef.current
    lastCursorPos,          \* lastCursorPosRef.current
    elementPositions,       \* elementPositions (panel layout)
    cursorSensitivityRef,   \* cursorSensitivityRef.current, in tenths
    fistInput,              \* landmark set handed to the fist test
    fistOutput,             \* isFist computed for fistInput
    liveTargets,            \* snap targets currently in the document
    browserData,            \* browserData.image # null (the #browser panel is rendered)
    pendingUpdates,         \* setElementPositions updaters queued by React, not yet applied
    written,                \* history: the layout after every write issued (SpecWrites)
    frame,                  \* display frame in progress: callbacks due, pipeline runs
    starting,               \* startVideo calls awaiting getUserMedia (captured isPinching)
    held,                   \* the smoothed point under a held index tip, in sub-pixels
    commands,               \* bridge: extension_command handlers, by request_id
    emitted,                \* bridge: extension_result messages emitted, in order
    sockets,                \* bridge: every socket connect() created, the last one is `socket`
    connected,              \* bridge: the connected flag
    badge,                  \* bridge: the badge text
    storage,                \* chrome.storage.local: extension_task
    popup,                  \* popup: its document and the callbacks it awaits
    ev                      \* what the last step did (observation only)

vars == <<isVideoOn, raf, handLandmarker, isHandTrackingEnabled, isModularMode,
          cadData, smoothedCursorPos, snapState, highlighted, cursorPos,
          isPinching, activeDragElement, lastCursorPos, elementPositions, ev,
          cursorSensitivityRef,
          fistInput,
          fistOutput,
          liveTargets,
          browserData,
          pendingUpdates,
          written,
          frame,
          starting,
          held,
          commands,
          emitted,
          sockets,
          connected,
          badge,
          storage,
          popup>>

engineVars == <<smoothedCursorPos, snapState, highlighted, cursorPos,
                isPinching, activeDragElement, lastCursorPos, elementPositions>>

----------------------------------------------------------------------------
(* Bounds of the model *)

MaxPending == 1       \* at most this many animation-frame callbacks pending
MaxLoops == 2         \* at most this many frame loops started or starting (SpecLoops)
MaxQueued == 2        \* at most this many layout updates queued between two renders
MaxTravel == 80       \* the layout is followed while the sum over panels of |dx| + 2|dy| from home <= this

----------------------------------------------------------------------------
(* Geometry helpers *)

Pt(px, py) == [x |-> px, y |-> py]

Abs(n) == IF n < 0 THEN -n ELSE n

Min2(a, b) == IF a < b THEN a ELSE b

Max2(a, b) == IF a > b THEN a ELSE b

\* Math.pow(a.x - b.x, 2) + Math.pow(a.y - b.y, 2), the square of the
\* distance the code takes the square root of
Dist2(a, b) == (a.x - b.x) * (a.x - b.x) + (a.y - b.y) * (a.y - b.y)

\* window.innerWidth / window.innerHeight
Window == [innerWidth |-> 2000, innerHeight |-> 1000]

NoElement == "null"

\* no value yet (values under test are held as one-element sequences)
NoInput == <<>>

----------------------------------------------------------------------------
(* Panel layout *)

\* the fixed hit-test order of the draggable regions
Panels == <<"video", "visualizer", "chat", "cad", "browser", "kasa", "tools">>

PanelIds == {Panels[i] : i \in 1..Len(Panels)}

\* useState initial value of elementPositions
InitialPositions ==
    [id \in PanelIds |->
        CASE id = "video"      -> Pt(40, 80)
          [] id = "visualizer" -> Pt(Window.innerWidth \div 2, Window.innerHeight \div 2)
          [] id = "chat"       -> Pt(Window.innerWidth \div 2, Window.innerHeight - 100)
          [] id = "cad"        -> Pt(Window.innerWidth \div 2 + 300, Window.innerHeight \div 2)
          [] id = "browser"    -> Pt(Window.innerWidth \div 2 - 300, Window.innerHeight \div 2)
          [] id = "kasa"       -> Pt(Window.innerWidth \div 2 + 350, Window.innerHeight \div 2 - 100)
          [] OTHER             -> Pt(Window.innerWidth \div 2, Window.innerHeight - 30)]

\* centerElements: setElementPositions(prev => ({...prev, visualizer, chat, tools}))
CenterElements(prev) ==
    LET width == Window.innerWidth
        height == Window.innerHeight
        visualizerHeight == 400
        gap == 30
    IN [prev EXCEPT
          !["visualizer"] = Pt(width \div 2, (height \div 2) - 180),
          !["chat"] = Pt(width \div 2, ((height \div 2) - 180) + (visualizerHeight \div 2) + gap),
          !["tools"] = Pt(width \div 2, height - 100)]

\* updateElementPosition with dy added to x and dx added to y
UpdateElementPosition_Swapped(prev, id, dx, dy) ==
    [prev EXCEPT ![id] = Pt(prev[id].x + dy, prev[id].y + dx)]

\* updateElementPosition(id, dx, dy)
UpdateElementPosition(prev, id, dx, dy) ==
    [prev EXCEPT ![id] = Pt(prev[id].x + dx, prev[id].y + dy)]

\* ids for which document.getElementById finds an element: #video, #visualizer
\* and #tools are always rendered, #cad only while cadData is set, #browser
\* only while browserData holds an image; #chat / #kasa are not rendered by
\* these sources
InDom(cad) ==
    {"video", "visualizer", "tools"}
        \cup (IF cad THEN {"cad"} ELSE {})
        \cup (IF browserData THEN {"browser"} ELSE {})

\* el.getBoundingClientRect() of a panel placed at pos by its style attribute:
\* #video is anchored at its top-left corner (w-80, 16:9, 1px border), the
\* others are centred on pos by translate(-50%, -50%)
PanelRect(id, pos) ==
    CASE id = "video"      -> [left |-> pos.x, right |-> pos.x + 322,
                               top |-> pos.y, bottom |-> pos.y + 182]
      [] id = "visualizer" -> [left |-> pos.x - 300, right |-> pos.x + 300,
                               top |-> pos.y - 200, bottom |-> pos.y + 200]
      [] id = "cad"        -> [left |-> pos.x - 250, right |-> pos.x + 250,
                               top |-> pos.y - 250, bottom |-> pos.y + 250]
      [] id = "browser"    -> [left |-> pos.x - 300, right |-> pos.x + 300,
                               top |-> pos.y - 225, bottom |-> pos.y + 225]
      [] OTHER             -> [left |-> pos.x - 278, right |-> pos.x + 278,
                               top |-> pos.y - 38, bottom |-> pos.y + 38]

\* finalX >= rect.left && finalX <= rect.right && finalY >= rect.top && finalY <= rect.bottom
InRect(p, rect) ==
    /\ p.x >= rect.left /\ p.x <= rect.right
    /\ p.y >= rect.top /\ p.y <= rect.bottom

\* the hit-test loop without its break: the last matching region wins
RECURSIVE HitTestFrom_NoBreak(_, _, _, _)
HitTestFrom_NoBreak(i, p, positions, cad) ==
    IF i > Len(Panels) THEN NoElement
    ELSE LET later == HitTestFrom_NoBreak(i + 1, p, positions, cad)
         IN IF later # NoElement THEN later
            ELSE IF /\ Panels[i] \in InDom(cad)
                    /\ InRect(p, PanelRect(Panels[i], positions[Panels[i]]))
                 THEN Panels[i]
                 ELSE NoElement

\* the for-loop over elements with its break: the first id, in the fixed
\* order, that is in the DOM and whose rectangle contains the point
RECURSIVE HitTestFrom(_, _, _, _)
HitTestFrom(i, p, positions, cad) ==
    IF i > Len(Panels) THEN NoElement
    ELSE IF /\ Panels[i] \in InDom(cad)
            /\ InRect(p, PanelRect(Panels[i], positions[Panels[i]]))
         THEN Panels[i]
         ELSE HitTestFrom(i + 1, p, positions, cad)

HitTest(p, positions, cad) == HitTestFrom(1, p, positions, cad)

----------------------------------------------------------------------------
(* Snap targets: the elements matched by
   querySelectorAll('button, input, select, .draggable'), in document order *)

Targets == <<"btnA", "btnB">>

TargetIds == {Targets[i] : i \in 1..Len(Targets)}

\* centre of the target's bounding rectangle
TargetCenter == [t \in TargetIds |-> IF t = "btnA" THEN Pt(1040, 480) ELSE Pt(1120, 520)]

\* a tool button is 52px wide and high (p-3, 24px icon, 2px border)
TargetRect(t) ==
    [left |-> TargetCenter[t].x - 26, right |-> TargetCenter[t].x + 26,
     top |-> TargetCenter[t].y - 26, bottom |-> TargetCenter[t].y + 26]

FreeSnap == [isSnapped |-> FALSE, element |-> NoElement, snapPos |-> Pt(0, 0)]

\* the loop over the targets found by querySelectorAll in the live document:
\* strict "dist < minDist" starting from Infinity
RECURSIVE ClosestFrom(_, _, _, _, _)
ClosestFrom(i, p, live, best, bestD) ==
    IF i > Len(Targets) THEN [el |-> best, minDist2 |-> bestD]
    ELSE LET d == Dist2(p, TargetCenter[Targets[i]])
         IN IF Targets[i] \in live /\ (best = NoElement \/ d < bestD)
            THEN ClosestFrom(i + 1, p, live, Targets[i], d)
            ELSE ClosestFrom(i + 1, p, live, best, bestD)

\* the closest target taken over every target, in the document or not
Closest_IgnoreLive(p, live) == ClosestFrom(1, p, TargetIds, NoElement, 0)

Closest(p, live) == ClosestFrom(1, p, live, NoElement, 0)

SNAP_THRESHOLD == 50

UNSNAP_THRESHOLD == 100

\* Resolve with the snap-in comparison made non-strict (<= SNAP_THRESHOLD)
Resolve_SnapAtThreshold(sm, snap, hl, live) ==
    IF snap.isSnapped
    THEN IF Dist2(sm, snap.snapPos) > UNSNAP_THRESHOLD * UNSNAP_THRESHOLD
         THEN [final |-> sm, snap |-> FreeSnap, hl |-> hl \ {snap.element}]
         ELSE [final |-> snap.snapPos, snap |-> snap, hl |-> hl]
    ELSE LET closest == Closest(sm, live)
         IN IF /\ closest.el # NoElement
               /\ closest.minDist2 <= SNAP_THRESHOLD * SNAP_THRESHOLD
            THEN [final |-> TargetCenter[closest.el],
                  snap |-> [isSnapped |-> TRUE, element |-> closest.el,
                            snapPos |-> TargetCenter[closest.el]],
                  hl |-> hl \cup {closest.el}]
            ELSE [final |-> sm, snap |-> snap, hl |-> hl]

\* Resolve with the release comparison made non-strict (>= UNSNAP_THRESHOLD)
Resolve_ReleaseAtThreshold(sm, snap, hl, live) ==
    IF snap.isSnapped
    THEN IF Dist2(sm, snap.snapPos) >= UNSNAP_THRESHOLD * UNSNAP_THRESHOLD
         THEN [final |-> sm, snap |-> FreeSnap, hl |-> hl \ {snap.element}]
         ELSE [final |-> snap.snapPos, snap |-> snap, hl |-> hl]
    ELSE LET closest == Closest(sm, live)
         IN IF /\ closest.el # NoElement
               /\ closest.minDist2 < SNAP_THRESHOLD * SNAP_THRESHOLD
            THEN [final |-> TargetCenter[closest.el],
                  snap |-> [isSnapped |-> TRUE, element |-> closest.el,
                            snapPos |-> TargetCenter[closest.el]],
                  hl |-> hl \cup {closest.el}]
            ELSE [final |-> sm, snap |-> snap, hl |-> hl]

\* Resolve with the release leaving the highlight styling in place
Resolve_KeepHighlight(sm, snap, hl, live) ==
    IF snap.isSnapped
    THEN IF Dist2(sm, snap.snapPos) > UNSNAP_THRESHOLD * UNSNAP_THRESHOLD
         THEN [final |-> sm, snap |-> FreeSnap, hl |-> hl]
         ELSE [final |-> snap.snapPos, snap |-> snap, hl |-> hl]
    ELSE LET closest == Closest(sm, live)
         IN IF /\ closest.el # NoElement
               /\ closest.minDist2 < SNAP_THRESHOLD * SNAP_THRESHOLD
            THEN [final |-> TargetCenter[closest.el],
                  snap |-> [isSnapped |-> TRUE, element |-> closest.el,
                            snapPos |-> TargetCenter[closest.el]],
                  hl |-> hl \cup {closest.el}]
            ELSE [final |-> sm, snap |-> snap, hl |-> hl]

\* Resolve with the stay-snapped branch handing on the smoothed point
Resolve_NoPin(sm, snap, hl, live) ==
    IF snap.isSnapped
    THEN IF Dist2(sm, snap.snapPos) > UNSNAP_THRESHOLD * UNSNAP_THRESHOLD
         THEN [final |-> sm, snap |-> FreeSnap, hl |-> hl \ {snap.element}]
         ELSE [final |-> sm, snap |-> snap, hl |-> hl]
    ELSE LET closest == Closest(sm, live)
         IN IF /\ closest.el # NoElement
               /\ closest.minDist2 < SNAP_THRESHOLD * SNAP_THRESHOLD
            THEN [final |-> sm,
                  snap |-> [isSnapped |-> TRUE, element |-> closest.el,
                            snapPos |-> TargetCenter[closest.el]],
                  hl |-> hl \cup {closest.el}]
            ELSE [final |-> sm, snap |-> snap, hl |-> hl]

\* a resolver that unsnaps at the distance at which it snaps
Resolve_NoHysteresis(sm, snap, hl, live) ==
    IF snap.isSnapped
    THEN IF Dist2(sm, snap.snapPos) > SNAP_THRESHOLD * SNAP_THRESHOLD
         THEN [final |-> sm, snap |-> FreeSnap, hl |-> hl \ {snap.element}]
         ELSE [final |-> snap.snapPos, snap |-> snap, hl |-> hl]
    ELSE LET closest == Closest(sm, live)
         IN IF /\ closest.el # NoElement
               /\ closest.minDist2 < SNAP_THRESHOLD * SNAP_THRESHOLD
            THEN [final |-> TargetCenter[closest.el],
                  snap |-> [isSnapped |-> TRUE, element |-> closest.el,
                            snapPos |-> TargetCenter[closest.el]],
                  hl |-> hl \cup {closest.el}]
            ELSE [final |-> sm, snap |-> snap, hl |-> hl]

\* the "Snap-to-Button Logic" block: from the smoothed point, the snap state
\* and the highlighted elements to the adjusted point (finalX, finalY), the
\* new snap state and the new highlighted elements
Resolve(sm, snap, hl, live) ==
    IF snap.isSnapped
    THEN IF Dist2(sm, snap.snapPos) > UNSNAP_THRESHOLD * UNSNAP_THRESHOLD
         THEN [final |-> sm, snap |-> FreeSnap, hl |-> hl \ {snap.element}]
         ELSE [final |-> snap.snapPos, snap |-> snap, hl |-> hl]
    ELSE LET closest == Closest(sm, live)
         IN IF /\ closest.el # NoElement
               /\ closest.minDist2 < SNAP_THRESHOLD * SNAP_THRESHOLD
            THEN [final |-> TargetCenter[closest.el],
                  snap |-> [isSnapped |-> TRUE, element |-> closest.el,
                            snapPos |-> TargetCenter[closest.el]],
                  hl |-> hl \cup {closest.el}]
            ELSE [final |-> sm, snap |-> snap, hl |-> hl]

----------------------------------------------------------------------------
(* Coordinate mapper *)

\* useState(2.0) / useRef(2.0) of the cursor sensitivity, in tenths
cursorSensitivity == 20

\* the cropped coordinate without the clamp
NormClamp_NoClamp(l, sens) == (l - 500) * sens + 5000

\* (l - 0.5) * SENSITIVITY + 0.5 clamped to [0, 1], in ten-thousandths
NormClamp(l, sens) == Max2(0, Min2(10000, (l - 500) * sens + 5000))

\* targetX = normX * window.innerWidth (likewise Y)
MapAxis(l, sens, size) == (NormClamp(l, sens) * size) \div 10000

\* the mapping is computed without rounding on these integers
MapExact(l, sens, size) == (NormClamp(l, sens) * size) % 10000 = 0

\* lerpFactor = 0.2, in tenths
lerpFactor == 2

\* smoothed + (target - smoothed) * lerpFactor
Lerp(s, t) == s + ((t - s) * lerpFactor) \div 10

LerpExact(s, t) == ((t - s) * lerpFactor) % 10 = 0

\* an index-tip coordinate that brings the smoothed coordinate from s to p in
\* one frame (used to pick the frame inputs; the frame itself maps forward)
IndexTipFor(p, s, sens, size) ==
    500 + ((((5 * p - 4 * s) * 10000) \div size) - 5000) \div sens

----------------------------------------------------------------------------
(* Hand poses: landmark offsets from the index tip (landmark 8), thousandths *)

LandmarkIdx == {0, 4, 5, 8, 9, 12, 13, 16, 17, 20}

HandShape(wrist, thumb, mcpY) ==
    (0 :> wrist) @@ (4 :> thumb) @@
    (5 :> Pt(0, mcpY)) @@ (8 :> Pt(0, 0)) @@
    (9 :> Pt(-40, mcpY)) @@ (12 :> Pt(-40, 0)) @@
    (13 :> Pt(-80, mcpY)) @@ (16 :> Pt(-80, 0)) @@
    (17 :> Pt(-120, mcpY)) @@ (20 :> Pt(-120, 0))

OpenHand == HandShape(Pt(0, 200), Pt(150, 100), 100)

PinchHand == HandShape(Pt(0, 200), Pt(30, 0), 100)

PinchEdgeHand == HandShape(Pt(0, 200), Pt(30, 40), 100)

FistHand == HandShape(Pt(0, 60), Pt(100, 0), -60)

FistPinchHand == HandShape(Pt(0, 60), Pt(30, 0), -60)

Poses == {OpenHand, PinchHand, PinchEdgeHand, FistHand, FistPinchHand}

\* a degenerate detection: every landmark on the same point
DegenerateHand == [i \in LandmarkIdx |-> Pt(0, 0)]

\* results.landmarks[0] for a hand in the given pose with its index tip at tip
LandmarksOf(pose, tip) ==
    [i \in LandmarkIdx |-> Pt(tip.x + pose[i].x, tip.y + pose[i].y)]

\* distance < 0.05 between index tip and thumb tip
IsPinchNow(landmarks) == Dist2(landmarks[8], landmarks[4]) < 50 * 50

\* isFingerFolded with the comparison made non-strict (distTip <= distMcp)
IsFingerFolded_OrEqual(landmarks, tipIdx, mcpIdx) ==
    Dist2(landmarks[tipIdx], landmarks[0]) <= Dist2(landmarks[mcpIdx], landmarks[0])

\* isFingerFolded(tipIdx, mcpIdx): distTip < distMcp
IsFingerFolded(landmarks, tipIdx, mcpIdx) ==
    Dist2(landmarks[tipIdx], landmarks[0]) < Dist2(landmarks[mcpIdx], landmarks[0])

IsFist(landmarks) ==
    /\ IsFingerFolded(landmarks, 8, 5)
    /\ IsFingerFolded(landmarks, 12, 9)
    /\ IsFingerFolded(landmarks, 16, 13)
    /\ IsFingerFolded(landmarks, 20, 17)

----------------------------------------------------------------------------
(* Click synthesis *)

\* the first snap target in the document whose rectangle contains p, from
\* index i on
RECURSIVE ButtonAtFrom(_, _, _)
ButtonAtFrom(i, p, live) ==
    IF i > Len(Targets) THEN "other"
    ELSE IF Targets[i] \in live /\ InRect(p, TargetRect(Targets[i])) THEN Targets[i]
         ELSE ButtonAtFrom(i + 1, p, live)

\* elementFromPoint finds an element only for points inside the viewport
InViewport(p) ==
    /\ p.x >= 0 /\ p.x < Window.innerWidth
    /\ p.y >= 0 /\ p.y < Window.innerHeight

\* the click always handed to the hit-tested element itself
ClickTarget_ElementOnly(p, live) == IF InViewport(p) THEN "other" ELSE "none"

\* document.elementFromPoint(finalX, finalY), null outside the viewport,
\* followed by el.closest('button, input, a, [role="button"]'): the button
\* under the point, else the element itself ("other": a panel or the
\* background)
ClickTarget(p, live) == IF InViewport(p) THEN ButtonAtFrom(1, p, live) ELSE "none"

\* if (isPinchNow && !isPinching) with the isPinching of the closure
ClickOf(isPinchNow, closurePinching, final, live) ==
    IF isPinchNow /\ ~closurePinching THEN ClickTarget(final, live) ELSE "none"

----------------------------------------------------------------------------
(* Drag controller *)

\* the dragging block without the isModularModeRef test around it
DragStep_AnyMode(modular, isFist, final, last, active, positions, cad) ==
    IF isFist
    THEN LET claimed == IF active = NoElement
                        THEN HitTest(final, positions, cad)
                        ELSE active
         IN IF claimed # NoElement
            THEN [active |-> claimed,
                  positions |-> UpdateElementPosition(positions, claimed,
                                    final.x - last.x, final.y - last.y)]
            ELSE [active |-> claimed, positions |-> positions]
    ELSE [active |-> NoElement, positions |-> positions]

\* the "Modular Mode Dragging Logic" block: the new activeDragElementRef and
\* the new panel layout
DragStep(modular, isFist, final, last, active, positions, cad) ==
    IF ~modular THEN [active |-> active, positions |-> positions]
    ELSE IF isFist
         THEN LET claimed == IF active = NoElement
                             THEN HitTest(final, positions, cad)
                             ELSE active
              IN IF claimed # NoElement
                 THEN [active |-> claimed,
                       positions |-> UpdateElementPosition(positions, claimed,
                                         final.x - last.x, final.y - last.y)]
                 ELSE [active |-> claimed, positions |-> positions]
         ELSE [active |-> NoElement, positions |-> positions]

\* the layout right after mount: useState initial value, then centerElements()
Home == CenterElements(InitialPositions)

\* the model follows the layout only while the panels' displacements from
\* their home positions sum to at most MaxTravel
RECURSIVE TravelFrom(_, _)
TravelFrom(i, positions) ==
    IF i > Len(Panels) THEN 0
    ELSE Abs(positions[Panels[i]].x - Home[Panels[i]].x)
         + 2 * Abs(positions[Panels[i]].y - Home[Panels[i]].y)
         + TravelFrom(i + 1, positions)

TravelOK(positions) == TravelFrom(1, positions) <= MaxTravel

----------------------------------------------------------------------------
(* Cursor positions the frames of the model steer the smoothed point to *)

\* the approach from the initial (0, 0), then points inside the visualizer
\* only, inside visualizer and cad, inside cad only and inside no panel
CorePts ==
    {Pt(400, 200), Pt(720, 360), Pt(960, 480),
     Pt(1040, 520), Pt(1120, 520), Pt(1120, 560), Pt(1040, 560)}

\* the same approach, then points at distances 48, 50, 52, 100 and 102 from
\* the centre of btnA, within 50 of both targets, and at 100 from btnB
SnapPts ==
    {Pt(400, 200), Pt(720, 360), Pt(960, 480),
     Pt(1040, 528), Pt(1000, 450), Pt(1040, 532), Pt(1084, 500), Pt(1080, 500),
     Pt(960, 420), Pt(960, 416), Pt(1040, 580), Pt(1040, 582), Pt(1200, 580)}

\* no display frame in progress
IdleFrame == [due |-> 0, runs |-> 0]

\* the frame clock after one callback: a callback that finds none due opens a
\* display frame holding every pending callback; ran tells whether the
\* callback executed the engine pipeline
AfterCallback(ran) ==
    LET opening == frame.due = 0
    IN [due |-> (IF opening THEN Len(raf) ELSE frame.due) - 1,
        runs |-> (IF opening THEN 0 ELSE frame.runs) + (IF ran THEN 1 ELSE 0)]

\* events and timers run between display frames, never between two callbacks
\* of one frame
BetweenFrames == frame.due = 0 /\ frame' = IdleFrame

Event(kind, fist, click) ==
    [kind |-> kind, fist |-> fist, click |-> click,
     released |-> NoElement, again |-> FALSE]

\* a frame that processed a hand: released is the target this frame unsnapped
\* from, again tells that it snapped onto the target the frame before it
\* had unsnapped from
HandEvent(fist, click, released, again) ==
    [kind |-> "hand", fist |-> fist, click |-> click,
     released |-> released, again |-> again]

EnvEvent == Event("env", FALSE, "none")

----------------------------------------------------------------------------
(* The frame loop: predictWebcam *)

\* a stopped callback that schedules itself again
FrameStopped_Reschedule ==
    /\ raf # <<>>
    /\ ~isVideoOn
    /\ raf' = Append(Tail(raf), Head(raf))
    /\ frame' = AfterCallback(FALSE)
    /\ ev' = Event("stopped", FALSE, "none")
    /\ UNCHANGED <<popup, storage, badge, connected, sockets, emitted, commands, held, starting, written, pendingUpdates, browserData,
                   liveTargets, fistOutput, fistInput, cursorSensitivityRef,
                   isVideoOn, handLandmarker, isHandTrackingEnabled,
                   isModularMode, cadData, engineVars>>

\* the callback finds isVideoOnRef.current false and returns
FrameStopped ==
    /\ raf # <<>>
    /\ ~isVideoOn
    /\ raf' = Tail(raf)
    /\ frame' = AfterCallback(FALSE)
    /\ ev' = Event("stopped", FALSE, "none")
    /\ UNCHANGED <<popup, storage, badge, connected, sockets, emitted, commands, held, starting, written, pendingUpdates, browserData, liveTargets,
                   fistOutput, fistInput, cursorSensitivityRef, isVideoOn,
                   handLandmarker, isHandTrackingEnabled, isModularMode,
                   cadData, engineVars>>

\* the video has no decoded frame yet (readyState < 2): reschedule only
FrameNotReady ==
    /\ raf # <<>>
    /\ isVideoOn
    /\ raf' = Append(Tail(raf), Head(raf))
    /\ frame' = AfterCallback(FALSE)
    /\ ev' = Event("skip", FALSE, "none")
    /\ UNCHANGED <<popup, storage, badge, connected, sockets, emitted, commands, held, starting, written, pendingUpdates, browserData, liveTargets,
                   fistOutput, fistInput, cursorSensitivityRef, isVideoOn,
                   handLandmarker, isHandTrackingEnabled, isModularMode,
                   cadData, engineVars>>

\* hand tracking is off, the landmarker is not loaded, or the video time has
\* not advanced: the hand-tracking block is skipped
FrameSkip ==
    /\ raf # <<>>
    /\ isVideoOn
    /\ raf' = Append(Tail(raf), Head(raf))
    /\ frame' = AfterCallback(FALSE)
    /\ ev' = Event("skip", FALSE, "none")
    /\ UNCHANGED <<popup, storage, badge, connected, sockets, emitted, commands, held, starting, written, pendingUpdates, browserData, liveTargets,
                   fistOutput, fistInput, cursorSensitivityRef, isVideoOn,
                   handLandmarker, isHandTrackingEnabled, isModularMode,
                   cadData, engineVars>>

\* a frame without a hand that puts the cursor back at the origin
FrameNoHand_ResetCursor ==
    /\ raf # <<>>
    /\ isVideoOn
    /\ isHandTrackingEnabled /\ handLandmarker
    /\ raf' = Append(Tail(raf), Head(raf))
    /\ frame' = AfterCallback(FALSE)
    /\ ev' = Event("nohand", FALSE, "none")
    /\ smoothedCursorPos' = Pt(0, 0)
    /\ cursorPos' = Pt(0, 0)
    /\ UNCHANGED <<popup, storage, badge, connected, sockets, emitted, commands, held, starting, written, pendingUpdates, browserData, liveTargets,
                   fistOutput, fistInput, cursorSensitivityRef, isVideoOn,
                   handLandmarker, isHandTrackingEnabled, isModularMode,
                   cadData, snapState, highlighted, isPinching,
                   activeDragElement, lastCursorPos, elementPositions>>

\* a frame without a hand that returns without requesting the next frame
FrameNoHand_NoReschedule ==
    /\ raf # <<>>
    /\ isVideoOn
    /\ isHandTrackingEnabled /\ handLandmarker
    /\ raf' = Tail(raf)
    /\ frame' = AfterCallback(FALSE)
    /\ ev' = Event("nohand", FALSE, "none")
    /\ UNCHANGED <<popup, storage, badge, connected, sockets, emitted, commands, held, starting, written, pendingUpdates, browserData, liveTargets,
                   fistOutput, fistInput, cursorSensitivityRef, isVideoOn,
                   handLandmarker, isHandTrackingEnabled, isModularMode,
                   cadData, engineVars>>

\* detectForVideo ran and found no hand (results.landmarks is empty)
FrameNoHand ==
    /\ raf # <<>>
    /\ isVideoOn
    /\ isHandTrackingEnabled /\ handLandmarker
    /\ raf' = Append(Tail(raf), Head(raf))
    /\ frame' = AfterCallback(FALSE)
    /\ ev' = Event("nohand", FALSE, "none")
    /\ UNCHANGED <<popup, storage, badge, connected, sockets, emitted, commands, held, starting, written, pendingUpdates, browserData, liveTargets,
                   fistOutput, fistInput, cursorSensitivityRef, isVideoOn,
                   handLandmarker, isHandTrackingEnabled, isModularMode,
                   cadData, engineVars>>

\* the block under "if (results.landmarks && results.landmarks.length > 0)":
\* mapper, snap resolver, click synthesis, drag controller; the frames of the
\* model are those whose smoothed point is computed exactly and lies in Pts
DetectedHand(landmarks, Pts) ==
    LET indexTip == landmarks[8]
        SENSITIVITY == cursorSensitivityRef
        targetX == MapAxis(indexTip.x, SENSITIVITY, Window.innerWidth)
        targetY == MapAxis(indexTip.y, SENSITIVITY, Window.innerHeight)
    IN /\ MapExact(indexTip.x, SENSITIVITY, Window.innerWidth)
       /\ MapExact(indexTip.y, SENSITIVITY, Window.innerHeight)
       /\ LerpExact(smoothedCursorPos.x, targetX)
       /\ LerpExact(smoothedCursorPos.y, targetY)
       /\ \E sm \in {Pt(Lerp(smoothedCursorPos.x, targetX),
                        Lerp(smoothedCursorPos.y, targetY))} :
          /\ sm \in Pts
          /\ \E r \in {Resolve(sm, snapState, highlighted, liveTargets)},
                isPinchNow \in {IsPinchNow(landmarks)},
                isFist \in {IsFist(landmarks)} :
             \E d \in {DragStep(isModularMode, isFist, r.final, lastCursorPos,
                                activeDragElement, elementPositions, cadData)} :
                /\ TravelOK(d.positions)
                /\ smoothedCursorPos' = sm
                /\ snapState' = r.snap
                /\ highlighted' = r.hl
                /\ cursorPos' = r.final
                /\ isPinching' = isPinchNow
                /\ activeDragElement' = d.active
                /\ elementPositions' = d.positions
                /\ lastCursorPos' = r.final
                /\ ev' = HandEvent(isFist,
                      ClickOf(isPinchNow, Head(raf), r.final, liveTargets),
                      IF snapState.isSnapped /\ ~r.snap.isSnapped
                      THEN snapState.element ELSE NoElement,
                      /\ ~snapState.isSnapped /\ r.snap.isSnapped
                      /\ ev.kind = "hand" /\ ev.released = r.snap.element)

\* detectForVideo found a hand, in one of the poses of PoseSet and with its
\* index tip where it steers the smoothed point to a point of Pts
FrameHand(Pts, PoseSet) ==
    /\ raf # <<>>
    /\ isVideoOn
    /\ isHandTrackingEnabled /\ handLandmarker
    /\ \E p \in Pts, pose \in PoseSet :
        LET tip == Pt(IndexTipFor(p.x, smoothedCursorPos.x, cursorSensitivityRef,
                                  Window.innerWidth),
                      IndexTipFor(p.y, smoothedCursorPos.y, cursorSensitivityRef,
                                  Window.innerHeight))
        IN /\ tip.x \in 0..1000 /\ tip.y \in 0..1000
           /\ \E landmarks \in {LandmarksOf(pose, tip)} :
                 /\ smoothedCursorPos' = p
                 /\ DetectedHand(landmarks, Pts)
    /\ raf' = Append(Tail(raf), Head(raf))
    /\ frame' = AfterCallback(TRUE)
    /\ UNCHANGED <<popup, storage, badge, connected, sockets, emitted, commands, held, starting, written, pendingUpdates, browserData, liveTargets,
                   fistOutput, fistInput, cursorSensitivityRef, isVideoOn,
                   handLandmarker, isHandTrackingEnabled, isModularMode,
                   cadData>>

----------------------------------------------------------------------------
(* Handlers outside the loop *)

\* toggleVideo with the video off, getUserMedia resolving before anything
\* else happens: startVideo sets the flag and requests the first frame with
\* the predictWebcam of the current render
StartVideo ==
    /\ ~isVideoOn
    /\ Len(raf) < MaxPending
    /\ isVideoOn' = TRUE
    /\ raf' = Append(raf, isPinching)
    /\ ev' = EnvEvent
    /\ BetweenFrames
    /\ UNCHANGED <<popup, storage, badge, connected, sockets, emitted, commands, held, starting, written, pendingUpdates, browserData, liveTargets,
                   fistOutput, fistInput, cursorSensitivityRef, handLandmarker,
                   isHandTrackingEnabled, isModularMode, cadData, engineVars>>

\* toggleVideo with the video off: startVideo is called and waits for
\* getUserMedia; isVideoOn stays false until the promise resolves
RequestStart ==
    /\ ~isVideoOn
    /\ Len(raf) + Len(starting) < MaxLoops
    /\ starting' = Append(starting, isPinching)
    /\ ev' = EnvEvent
    /\ BetweenFrames
    /\ UNCHANGED <<popup, storage, badge, connected, sockets, emitted, commands, held, isVideoOn, raf, written, pendingUpdates, browserData,
                   liveTargets, fistOutput, fistInput, cursorSensitivityRef,
                   handLandmarker, isHandTrackingEnabled, isModularMode,
                   cadData, engineVars>>

\* getUserMedia resolves: the rest of startVideo sets the flag and requests
\* the first frame with the predictWebcam its closure holds
StartResolved ==
    /\ starting # <<>>
    /\ starting' = Tail(starting)
    /\ isVideoOn' = TRUE
    /\ raf' = Append(raf, Head(starting))
    /\ ev' = EnvEvent
    /\ BetweenFrames
    /\ UNCHANGED <<popup, storage, badge, connected, sockets, emitted, commands, held, written, pendingUpdates, browserData, liveTargets,
                   fistOutput, fistInput, cursorSensitivityRef, handLandmarker,
                   isHandTrackingEnabled, isModularMode, cadData, engineVars>>

\* getUserMedia rejects: the catch block of startVideo
StartFailed ==
    /\ starting # <<>>
    /\ starting' = Tail(starting)
    /\ ev' = EnvEvent
    /\ BetweenFrames
    /\ UNCHANGED <<popup, storage, badge, connected, sockets, emitted, commands, held, isVideoOn, raf, written, pendingUpdates, browserData,
                   liveTargets, fistOutput, fistInput, cursorSensitivityRef,
                   handLandmarker, isHandTrackingEnabled, isModularMode,
                   cadData, engineVars>>

\* toggleVideo with the video on: stopVideo
StopVideo ==
    /\ isVideoOn
    /\ isVideoOn' = FALSE
    /\ ev' = EnvEvent
    /\ BetweenFrames
    /\ UNCHANGED <<popup, storage, badge, connected, sockets, emitted, commands, held, starting, written, pendingUpdates, browserData, liveTargets,
                   fistOutput, fistInput, cursorSensitivityRef, raf,
                   handLandmarker, isHandTrackingEnabled, isModularMode,
                   cadData, engineVars>>

\* onToggleHand: setIsHandTrackingEnabled(!isHandTrackingEnabled)
ToggleHand ==
    /\ isHandTrackingEnabled' = ~isHandTrackingEnabled
    /\ ev' = EnvEvent
    /\ BetweenFrames
    /\ UNCHANGED <<popup, storage, badge, connected, sockets, emitted, commands, held, starting, written, pendingUpdates, browserData, liveTargets,
                   fistOutput, fistInput, cursorSensitivityRef, isVideoOn, raf,
                   handLandmarker, isModularMode, cadData, engineVars>>

\* onToggleLayout: setIsModularMode(!isModularMode)
ToggleLayout ==
    /\ isModularMode' = ~isModularMode
    /\ ev' = EnvEvent
    /\ BetweenFrames
    /\ UNCHANGED <<popup, storage, badge, connected, sockets, emitted, commands, held, starting, written, pendingUpdates, browserData, liveTargets,
                   fistOutput, fistInput, cursorSensitivityRef, isVideoOn, raf,
                   handLandmarker, isHandTrackingEnabled, cadData, engineVars>>

\* initHandLandmarker resolves
LandmarkerReady ==
    /\ ~handLandmarker
    /\ handLandmarker' = TRUE
    /\ ev' = EnvEvent
    /\ BetweenFrames
    /\ UNCHANGED <<popup, storage, badge, connected, sockets, emitted, commands, held, starting, written, pendingUpdates, browserData, liveTargets,
                   fistOutput, fistInput, cursorSensitivityRef, isVideoOn, raf,
                   isHandTrackingEnabled, isModularMode, cadData, engineVars>>

\* socket.on('cad_data') writing the cad position on every message
CadData_Reposition ==
    /\ ~cadData
    /\ cadData' = TRUE
    /\ elementPositions' =
         [elementPositions EXCEPT
            !["cad"] = Pt(Window.innerWidth \div 2 + 200, Window.innerHeight \div 2)]
    /\ ev' = EnvEvent
    /\ BetweenFrames
    /\ UNCHANGED <<popup, storage, badge, connected, sockets, emitted, commands, held, starting, written, pendingUpdates, browserData, liveTargets,
                   fistOutput, fistInput, cursorSensitivityRef, isVideoOn, raf,
                   handLandmarker, isHandTrackingEnabled, isModularMode,
                   smoothedCursorPos, snapState, highlighted, cursorPos,
                   isPinching, activeDragElement, lastCursorPos>>

\* socket.on('cad_data'): setCadData(data); the layout is written only if the
\* elementPositions of the mounting render has no cad entry
CadData ==
    /\ ~cadData
    /\ cadData' = TRUE
    /\ elementPositions' =
         IF "cad" \notin DOMAIN InitialPositions
         THEN [elementPositions EXCEPT
                 !["cad"] = Pt(Window.innerWidth \div 2 + 200, Window.innerHeight \div 2)]
         ELSE elementPositions
    /\ ev' = EnvEvent
    /\ BetweenFrames
    /\ UNCHANGED <<popup, storage, badge, connected, sockets, emitted, commands, held, starting, written, pendingUpdates, browserData, liveTargets,
                   fistOutput, fistInput, cursorSensitivityRef, isVideoOn, raf,
                   handLandmarker, isHandTrackingEnabled, isModularMode,
                   smoothedCursorPos, snapState, highlighted, cursorPos,
                   isPinching, activeDragElement, lastCursorPos>>

\* socket.on('browser_frame'): setBrowserData with the image; the layout is
\* written only if the elementPositions of the mounting render has no
\* browser entry
BrowserFrame ==
    /\ ~browserData
    /\ browserData' = TRUE
    /\ elementPositions' =
         IF "browser" \notin DOMAIN InitialPositions
         THEN [elementPositions EXCEPT
                 !["browser"] = Pt(Window.innerWidth \div 2 - 300, Window.innerHeight \div 2)]
         ELSE elementPositions
    /\ ev' = EnvEvent
    /\ BetweenFrames
    /\ UNCHANGED <<popup, storage, badge, connected, sockets, emitted, commands, held, starting, written, pendingUpdates, liveTargets, fistOutput,
                   fistInput, cursorSensitivityRef, cadData, isVideoOn, raf,
                   handLandmarker, isHandTrackingEnabled, isModularMode,
                   smoothedCursorPos, snapState, highlighted, cursorPos,
                   isPinching, activeDragElement, lastCursorPos>>

\* BrowserWindow onClose: setBrowserData({ image: null, logs: [] })
BrowserClose ==
    /\ browserData
    /\ browserData' = FALSE
    /\ ev' = EnvEvent
    /\ BetweenFrames
    /\ UNCHANGED <<popup, storage, badge, connected, sockets, emitted, commands, held, starting, written, pendingUpdates, liveTargets, fistOutput,
                   fistInput, cursorSensitivityRef, cadData, isVideoOn, raf,
                   handLandmarker, isHandTrackingEnabled, isModularMode,
                   engineVars>>

\* window 'resize': centerElements
Resize ==
    /\ elementPositions' = CenterElements(elementPositions)
    /\ ev' = EnvEvent
    /\ BetweenFrames
    /\ UNCHANGED <<popup, storage, badge, connected, sockets, emitted, commands, held, starting, written, pendingUpdates, browserData, liveTargets,
                   fistOutput, fistInput, cursorSensitivityRef, isVideoOn, raf,
                   handLandmarker, isHandTrackingEnabled, isModularMode,
                   cadData, smoothedCursorPos, snapState, highlighted,
                   cursorPos, isPinching, activeDragElement, lastCursorPos>>

----------------------------------------------------------------------------

\* the popup is not open
ClosedPopup ==
    [open |-> FALSE, conn |-> "initial", taskVisible |-> FALSE,
     badgeRead |-> FALSE, storageRead |-> FALSE, changes |-> <<>>]

\* the state after the first render and the mount effects
InitApp ==
    /\ isVideoOn = FALSE
    /\ raf = <<>>
    /\ handLandmarker = FALSE
    /\ isHandTrackingEnabled = FALSE
    /\ isModularMode = FALSE
    /\ cadData = FALSE
    /\ smoothedCursorPos = Pt(0, 0)
    /\ snapState = FreeSnap
    /\ highlighted = {}
    /\ cursorPos = Pt(0, 0)
    /\ isPinching = FALSE
    /\ activeDragElement = NoElement
    /\ lastCursorPos = Pt(0, 0)
    /\ elementPositions = Home
    /\ cursorSensitivityRef = cursorSensitivity
    /\ liveTargets = TargetIds
    /\ browserData = FALSE
    /\ pendingUpdates = <<>>
    /\ written = Home
    /\ frame = IdleFrame
    /\ starting = <<>>
    /\ commands = <<>>
    /\ emitted = <<>>
    /\ sockets = <<"connecting">>
    /\ connected = FALSE
    /\ badge = ""
    /\ storage = NoInput
    /\ popup = ClosedPopup
    /\ ev = EnvEvent

Init ==
    /\ InitApp
    /\ fistInput = NoInput
    /\ fistOutput = NoInput
    /\ held = NoInput

FrameHandCore == FrameHand(CorePts, Poses)

Next ==
    \/ FrameStopped
    \/ FrameNotReady
    \/ FrameSkip
    \/ FrameNoHand
    \/ FrameHandCore
    \/ StartVideo
    \/ StopVideo
    \/ ToggleHand
    \/ ToggleLayout
    \/ LandmarkerReady
    \/ CadData
    \/ Resize

Spec == Init /\ [][Next]_vars

\* a re-render takes a snap target out of the document (a window with
\* buttons is closed)
TargetRemoved ==
    /\ \E t \in liveTargets : liveTargets' = liveTargets \ {t}
    /\ ev' = EnvEvent
    /\ BetweenFrames
    /\ UNCHANGED <<popup, storage, badge, connected, sockets, emitted, commands, held, starting, written, pendingUpdates, browserData, fistOutput,
                   fistInput, cursorSensitivityRef, isVideoOn, raf,
                   handLandmarker, isHandTrackingEnabled, isModularMode,
                   cadData, engineVars>>

\* a re-render puts a snap target (back) into the document
TargetAdded ==
    /\ \E t \in TargetIds \ liveTargets : liveTargets' = liveTargets \cup {t}
    /\ ev' = EnvEvent
    /\ BetweenFrames
    /\ UNCHANGED <<popup, storage, badge, connected, sockets, emitted, commands, held, starting, written, pendingUpdates, browserData, fistOutput,
                   fistInput, cursorSensitivityRef, isVideoOn, raf,
                   handLandmarker, isHandTrackingEnabled, isModularMode,
                   cadData, engineVars>>

FrameHandSnap == FrameHand(SnapPts, Poses)

\* the engine with layout edit mode never enabled, over the snap points,
\* with snap targets leaving and entering the document
NextSnap ==
    \/ FrameStopped
    \/ FrameNotReady
    \/ FrameSkip
    \/ FrameNoHand
    \/ FrameHandSnap
    \/ StartVideo
    \/ StopVideo
    \/ ToggleHand
    \/ LandmarkerReady
    \/ TargetRemoved
    \/ TargetAdded

SpecSnap == Init /\ [][NextSnap]_vars

\* index-tip coordinates and slider positions of the mapper frames
TipRange == {0, 250, 400, 500, 600, 750, 1000}

SensRange == {10, 20, 25, 50}

\* the smoothed points the mapper frames are followed to: a grid of 20 by 10
\* pixels over the viewport
MapPts == {q \in [x : 0..Window.innerWidth, y : 0..Window.innerHeight] :
              q.x % 20 = 0 /\ q.y % 10 = 0}

\* the settings slider (min 1.0, max 5.0): setCursorSensitivity, copied to
\* the ref by the synchronising effect
SetSensitivity ==
    /\ \E v \in SensRange :
          /\ v # cursorSensitivityRef
          /\ cursorSensitivityRef' = v
    /\ ev' = EnvEvent
    /\ BetweenFrames
    /\ UNCHANGED <<popup, storage, badge, connected, sockets, emitted, commands, held, starting, written, pendingUpdates, browserData, liveTargets,
                   fistOutput, fistInput, isVideoOn, raf, handLandmarker,
                   isHandTrackingEnabled, isModularMode, cadData, engineVars>>

\* detectForVideo found an open hand with its index tip anywhere in TipRange
FrameHandMap ==
    /\ raf # <<>>
    /\ isVideoOn
    /\ isHandTrackingEnabled /\ handLandmarker
    /\ \E tx \in TipRange, ty \in TipRange :
          DetectedHand(LandmarksOf(OpenHand, Pt(tx, ty)), MapPts)
    /\ raf' = Append(Tail(raf), Head(raf))
    /\ frame' = AfterCallback(TRUE)
    /\ UNCHANGED <<popup, storage, badge, connected, sockets, emitted, commands, held, starting, written, pendingUpdates, browserData, liveTargets,
                   fistOutput, fistInput, cursorSensitivityRef, isVideoOn,
                   handLandmarker, isHandTrackingEnabled, isModularMode,
                   cadData>>

\* the engine under every slider position, over the whole camera range
NextMap ==
    \/ FrameStopped
    \/ FrameNotReady
    \/ FrameSkip
    \/ FrameNoHand
    \/ FrameHandMap
    \/ StartVideo
    \/ StopVideo
    \/ ToggleHand
    \/ LandmarkerReady
    \/ SetSensitivity

SpecMap == Init /\ [][NextMap]_vars

\* synthetic landmark sets for the fist test: the wrist at (0.5, 0.8), the
\* four knuckles 0.2 above it, and every finger tip either nearer to the wrist
\* than its knuckle, at the same distance, or farther
FingerTips == {8, 12, 16, 20}

FingerStates == {"folded", "equal", "extended"}

SyntheticHand(fingers, thumb) ==
    [i \in LandmarkIdx |->
        IF i = 0 THEN Pt(500, 800)
        ELSE IF i = 4 THEN thumb
        ELSE IF i \in FingerTips
             THEN Pt(440 + 5 * i,
                     CASE fingers[i] = "folded" -> 700
                       [] fingers[i] = "equal" -> 1000
                       [] OTHER -> 300)
             ELSE Pt(440 + 5 * (i + 3), 600)]

SyntheticHands ==
    {SyntheticHand(f, t) : f \in [FingerTips -> FingerStates],
                           t \in {Pt(400, 700), Pt(480, 300)}}

\* isFist evaluated on the landmark set under test
ClassifyFist ==
    /\ fistInput # NoInput
    /\ fistOutput = NoInput
    /\ fistOutput' = <<IsFist(fistInput[1])>>
    /\ UNCHANGED <<popup, storage, badge, connected, sockets, emitted, commands, held, starting, frame, written, pendingUpdates, browserData,
                   liveTargets, fistInput, cursorSensitivityRef, isVideoOn, raf,
                   handLandmarker, isHandTrackingEnabled, isModularMode,
                   cadData, engineVars, ev>>

InitFist ==
    /\ InitApp
    /\ fistInput \in {<<h>> : h \in SyntheticHands}
    /\ fistOutput = NoInput
    /\ held = NoInput

NextFist == ClassifyFist

\* the fist test on every synthetic landmark set
SpecFist == InitFist /\ [][NextFist]_vars

FrameHandLayout == FrameHand(CorePts, {OpenHand, FistHand})

\* the engine with every event that reaches the layout or the rendered panels
NextLayout ==
    \/ FrameStopped
    \/ FrameNotReady
    \/ FrameSkip
    \/ FrameNoHand
    \/ FrameHandLayout
    \/ StartVideo
    \/ StopVideo
    \/ ToggleHand
    \/ ToggleLayout
    \/ LandmarkerReady
    \/ CadData
    \/ BrowserFrame
    \/ BrowserClose
    \/ Resize

SpecLayout == Init /\ [][NextLayout]_vars

\* an updater function handed to setElementPositions
MoveUpdate(id, dx, dy) == [op |-> "move", id |-> id, dx |-> dx, dy |-> dy]

CenterUpdate == [op |-> "center", id |-> NoElement, dx |-> 0, dy |-> 0]

\* the updater applied to the layout it is given as prev
ApplyUpdate(prev, u) ==
    IF u.op = "move" THEN UpdateElementPosition(prev, u.id, u.dx, u.dy)
    ELSE CenterElements(prev)

\* every update computed from the rendered layout: the last one wins
ApplyAll_LastWins(queue, prev) ==
    IF queue = <<>> THEN prev ELSE ApplyUpdate(prev, queue[Len(queue)])

\* React applies the queued updaters in the order they were queued, each to
\* the result of the one before
RECURSIVE ApplyAll(_, _)
ApplyAll(queue, prev) ==
    IF queue = <<>> THEN prev
    ELSE ApplyAll(Tail(queue), ApplyUpdate(prev, Head(queue)))

\* drag deltas of the write model: along x, along y and along both
Deltas == {Pt(40, 0), Pt(-40, 0), Pt(0, 20), Pt(0, -20), Pt(40, 20), Pt(-40, -20)}

\* the drag block calls updateElementPosition(id, dx, dy)
DragWrite ==
    /\ Len(pendingUpdates) < MaxQueued
    /\ \E id \in {"visualizer", "cad"}, d \in Deltas :
          /\ TravelOK(UpdateElementPosition(written, id, d.x, d.y))
          /\ pendingUpdates' = Append(pendingUpdates, MoveUpdate(id, d.x, d.y))
          /\ written' = UpdateElementPosition(written, id, d.x, d.y)
    /\ UNCHANGED <<popup, storage, badge, connected, sockets, emitted, commands, held, starting, frame, browserData, liveTargets, fistOutput,
                   fistInput, cursorSensitivityRef, isVideoOn, raf,
                   handLandmarker, isHandTrackingEnabled, isModularMode,
                   cadData, engineVars, ev>>

\* window 'resize' calls centerElements
ResizeWrite ==
    /\ Len(pendingUpdates) < MaxQueued
    /\ pendingUpdates' = Append(pendingUpdates, CenterUpdate)
    /\ written' = CenterElements(written)
    /\ UNCHANGED <<popup, storage, badge, connected, sockets, emitted, commands, held, starting, frame, browserData, liveTargets, fistOutput,
                   fistInput, cursorSensitivityRef, isVideoOn, raf,
                   handLandmarker, isHandTrackingEnabled, isModularMode,
                   cadData, engineVars, ev>>

\* React renders: the queued updaters produce the next elementPositions
Render ==
    /\ pendingUpdates # <<>>
    /\ elementPositions' = ApplyAll(pendingUpdates, elementPositions)
    /\ pendingUpdates' = <<>>
    /\ UNCHANGED <<popup, storage, badge, connected, sockets, emitted, commands, held, starting, frame, written, browserData, liveTargets,
                   fistOutput, fistInput, cursorSensitivityRef, isVideoOn, raf,
                   handLandmarker, isHandTrackingEnabled, isModularMode,
                   cadData, smoothedCursorPos, snapState, highlighted,
                   cursorPos, isPinching, activeDragElement, lastCursorPos, ev>>

\* the two writers of the layout and the render that applies their updates
NextWrites ==
    \/ DragWrite
    \/ ResizeWrite
    \/ Render

SpecWrites == Init /\ [][NextWrites]_vars


\* the approach from (0, 0), outside every panel at first, then a point
\* inside the visualizer and within 50px of btnA
TickPts == {Pt(400, 200), Pt(720, 360), Pt(960, 480), Pt(1040, 520)}

FrameHandTicks == FrameHand(TickPts, {OpenHand, FistHand, DegenerateHand})

\* the frame loop under every kind of tick input: complete and degenerate
\* hands, no hand, skipped detection, targets leaving the document
NextTicks ==
    \/ FrameStopped
    \/ FrameNotReady
    \/ FrameSkip
    \/ FrameNoHand
    \/ FrameHandTicks
    \/ StartVideo
    \/ StopVideo
    \/ ToggleHand
    \/ ToggleLayout
    \/ LandmarkerReady
    \/ TargetRemoved
    \/ TargetAdded

SpecTicks == Init /\ [][NextTicks]_vars

\* the approach of the smoothed point from the initial (0, 0)
LoopPts == {Pt(400, 200), Pt(720, 360), Pt(960, 480)}

FrameHandLoops == FrameHand(LoopPts, {OpenHand})

\* the frame loop under start requests that wait for the camera, stops and
\* hand-tracking toggles
NextLoops ==
    \/ FrameStopped
    \/ FrameNotReady
    \/ FrameSkip
    \/ FrameNoHand
    \/ FrameHandLoops
    \/ RequestStart
    \/ StartResolved
    \/ StartFailed
    \/ StopVideo
    \/ ToggleHand
    \/ LandmarkerReady

SpecLoops == Init /\ [][NextLoops]_vars

TypeOK ==
    /\ isVideoOn \in BOOLEAN
    /\ Len(raf) <= Max2(MaxPending, MaxLoops)
    /\ frame.due \in 0..Len(raf)
    /\ activeDragElement \in PanelIds \cup {NoElement}
    /\ snapState.isSnapped \in BOOLEAN

----------------------------------------------------------------------------
(* Properties *)

HandFrame == ev'.kind = "hand"

NoHandFrame == ev'.kind = "nohand"

Dragging == activeDragElement # NoElement

\* C1: a synthetic click is dispatched on a hand frame if and only if the
\* pinch condition holds on that frame and did not hold on the previous
\* processed hand frame (one click per pinch engagement).
C1_ClickOnRisingEdgeOnly ==
    [][HandFrame => ((ev'.click # "none") <=> (isPinching' /\ ~isPinching))]_vars

\* C2: whenever the controller is Dragging and the next frame carries no
\* landmark result, the drag state is Idle after that frame.
C2_TrackingLossEndsDrag ==
    [][(Dragging /\ NoHandFrame) => activeDragElement' = NoElement]_vars

\* C3: stopping hand tracking (hand toggle off, or video stopped) leaves
\* isPinching = false and the drag state Idle.
C3_StopResetsGestures ==
    [][((isHandTrackingEnabled /\ ~isHandTrackingEnabled') \/ (isVideoOn /\ ~isVideoOn'))
          => (~isPinching' /\ activeDragElement' = NoElement)]_vars

\* C4: after every frame that carries no landmark result the pinch flag is
\* false, so a pinch on the next hand frame is a new engagement.
C4_NoHandClearsPinch ==
    [][NoHandFrame => ~isPinching']_vars

\* squared distance from p to the centre of target t
CenterDist2(p, t) == Dist2(p, TargetCenter[t])

\* C5: in state Free a hand frame snaps if and only if the centre of some
\* target in the document is strictly nearer than 50px to the smoothed point;
\* it then snaps to a target
\* of minimum distance, stores its centre as snapPoint and outputs that
\* centre; otherwise it stays Free and outputs the smoothed point.
C5_SnapInBelow50 ==
    [][(HandFrame /\ ~snapState.isSnapped) =>
         LET sm == smoothedCursorPos'
             near == {t \in liveTargets : CenterDist2(sm, t) < 2500}
         IN IF near = {}
            THEN /\ ~snapState'.isSnapped
                 /\ cursorPos' = sm
            ELSE /\ snapState'.isSnapped
                 /\ snapState'.element \in near
                 /\ \A u \in liveTargets :
                        CenterDist2(sm, snapState'.element) <= CenterDist2(sm, u)
                 /\ snapState'.snapPos = TargetCenter[snapState'.element]
                 /\ cursorPos' = TargetCenter[snapState'.element]]_vars

\* C5 witness: a hand frame left the resolver Free with the smoothed point at
\* exactly 50px from the centre of btnA
C5_Witness ==
    /\ ev.kind = "hand"
    /\ ~snapState.isSnapped
    /\ "btnA" \in liveTargets
    /\ CenterDist2(smoothedCursorPos, "btnA") = 2500
    /\ cursorPos = smoothedCursorPos

\* C6: in state Snapped a hand frame releases the snap if and only if the
\* smoothed point is strictly farther than 100px from snapPoint; on release
\* the output is the smoothed point, otherwise the state is unchanged and the
\* output is snapPoint.
C6_ReleaseAbove100 ==
    [][(HandFrame /\ snapState.isSnapped) =>
         LET sm == smoothedCursorPos'
         IN IF Dist2(sm, snapState.snapPos) > 10000
            THEN /\ ~snapState'.isSnapped
                 /\ cursorPos' = sm
            ELSE /\ snapState' = snapState
                 /\ cursorPos' = snapState.snapPos]_vars

\* C6 witness: a hand frame kept the snap with the smoothed point at exactly
\* 100px from snapPoint
C6_Witness ==
    /\ ev.kind = "hand"
    /\ snapState.isSnapped
    /\ Dist2(smoothedCursorPos, snapState.snapPos) = 10000
    /\ cursorPos = snapState.snapPos

\* the fixed priority order of the draggable regions, as the claim states it
FixedOrder == <<"video", "visualizer", "chat", "cad", "browser", "kasa", "tools">>

Rank(id) == CHOOSE i \in 1..Len(FixedOrder) : FixedOrder[i] = id

\* the regions in the DOM whose bounding box contains p
Containing(p, positions, cad) ==
    {id \in InDom(cad) : InRect(p, PanelRect(id, positions[id]))}

\* C7: a drag claim is acquired only on a hand frame with layout edit mode
\* on, a fist and an Idle controller, and only for a region that contains the
\* adjusted point, the earliest such region in the fixed order; when no
\* region contains the point the controller stays Idle and the layout is
\* unchanged.
C7_ClaimFirstRegionUnderCursor ==
    [][LET under == Containing(cursorPos', elementPositions, cadData)
       IN /\ (activeDragElement' # activeDragElement /\ activeDragElement' # NoElement) =>
                /\ HandFrame /\ isModularMode /\ ev'.fist
                /\ activeDragElement = NoElement
                /\ activeDragElement' \in under
                /\ \A other \in under : Rank(activeDragElement') <= Rank(other)
          /\ (HandFrame /\ isModularMode /\ ev'.fist /\ ~Dragging /\ under = {}) =>
                /\ activeDragElement' = NoElement
                /\ elementPositions' = elementPositions]_vars

\* C7 witness: a fist frame in layout edit mode has the visualizer claimed
\* while the adjusted point is inside both the visualizer and the cad panel
C7_Witness ==
    /\ ev.kind = "hand" /\ ev.fist /\ isModularMode
    /\ activeDragElement = "visualizer"
    /\ {"visualizer", "cad"} \subseteq Containing(cursorPos, elementPositions, cadData)

C9_OpenHandEndsDrag ==
    [][(Dragging /\ HandFrame /\ ~ev'.fist) =>
         /\ activeDragElement' = NoElement
         /\ elementPositions' = elementPositions]_vars

\* C10: with layout edit mode disabled a hand frame claims no drag target and
\* moves no panel, whatever the fist state and cursor position, while the snap
\* outcome and the click outcome of a frame are given by the same rules in
\* both modes.
C10_ModeOffDisablesDragOnly ==
    [][HandFrame =>
         /\ ~isModularMode =>
               /\ (activeDragElement = NoElement => activeDragElement' = NoElement)
               /\ elementPositions' = elementPositions
         /\ [final |-> cursorPos', snap |-> snapState', hl |-> highlighted']
               = Resolve(smoothedCursorPos', snapState, highlighted, liveTargets)
         /\ ev'.click = ClickOf(isPinching', Head(raf), cursorPos', liveTargets)]_vars

\* C10 witness: a fist frame over a draggable region with the mode disabled
\* left the controller Idle
C10_Witness ==
    /\ ev.kind = "hand" /\ ev.fist /\ ~isModularMode
    /\ Containing(cursorPos, elementPositions, cadData) # {}
    /\ activeDragElement = NoElement

\* C11: a frame with no landmark result leaves the smoothed cursor point, the
\* displayed cursor position, the snap state and the panel layout exactly as
\* they were.
C11_NoHandHoldsCursor ==
    [][NoHandFrame =>
         /\ smoothedCursorPos' = smoothedCursorPos
         /\ cursorPos' = cursorPos
         /\ snapState' = snapState
         /\ elementPositions' = elementPositions]_vars

\* C11 witness: a frame without a hand was processed while the cursor was
\* snapped to a target away from the origin and a panel had been dragged
C11_Witness ==
    /\ ev.kind = "nohand"
    /\ snapState.isSnapped
    /\ cursorPos = snapState.snapPos
    /\ elementPositions # Home

\* the raw target of a hand frame, recovered from the smoothing step
\* smoothed' = smoothed + (raw - smoothed) * 0.2 (exact on the model's frames)
RawOf(before, after) == Pt(5 * after.x - 4 * before.x, 5 * after.y - 4 * before.y)

\* C12: on every hand frame, for every index-tip coordinate in [0,1] and every
\* sensitivity in [1.0, 5.0], the raw point lies in [0, viewport width] x
\* [0, viewport height], and no frame of the loop alters the sensitivity.
C12_RawInsideViewport ==
    [][/\ HandFrame =>
            LET raw == RawOf(smoothedCursorPos, smoothedCursorPos')
            IN /\ raw.x >= 0 /\ raw.x <= Window.innerWidth
               /\ raw.y >= 0 /\ raw.y <= Window.innerHeight
       /\ ev'.kind # "env" => cursorSensitivityRef' = cursorSensitivityRef]_vars

\* C12 witness: a hand frame at sensitivity 5.0 whose cropped coordinate fell
\* outside [0,1] on the x axis: from the smoothed point (0, 0) the clamped raw
\* x is the viewport width
C12_Witness ==
    /\ ev.kind = "hand"
    /\ cursorSensitivityRef = 50
    /\ smoothedCursorPos.x = Window.innerWidth \div 5

\* the tip/knuckle pairs of the four non-thumb fingers, as the claim lists them
FingerPairs == {<<8, 5>>, <<12, 9>>, <<16, 13>>, <<20, 17>>}

\* tip strictly nearer to the wrist (landmark 0) than the base knuckle
TipNearer(landmarks, pair) ==
    Dist2(landmarks[pair[1]], landmarks[0]) < Dist2(landmarks[pair[2]], landmarks[0])

\* C13: isFist is true if and only if each of the four non-thumb fingers has
\* its tip strictly nearer to the wrist than its base knuckle; one extended
\* finger (equal distance included) makes it false.
C13_FistIffAllFourFolded ==
    fistOutput # NoInput =>
        (fistOutput[1] <=> \A pair \in FingerPairs : TipNearer(fistInput[1], pair))

\* C13 witness: isFist came out false for a hand with three fingers folded and
\* the tip of the fourth at exactly the distance of its knuckle
C13_Witness ==
    /\ fistOutput = <<FALSE>>
    /\ TipNearer(fistInput[1], <<8, 5>>)
    /\ TipNearer(fistInput[1], <<12, 9>>)
    /\ TipNearer(fistInput[1], <<16, 13>>)
    /\ Dist2(fistInput[1][20], fistInput[1][0]) = Dist2(fistInput[1][17], fistInput[1][0])

\* C14: in every reachable state the elements carrying the snap highlight are
\* exactly the snapped target when the state is Snapped and none when it is
\* Free, also when the target left the document while snapped.
C14_HighlightFollowsSnap ==
    highlighted = IF snapState.isSnapped THEN {snapState.element} ELSE {}

\* C14 witness: the resolver is Snapped to a target that has left the
\* document, and that element alone carries the highlight
C14_Witness ==
    /\ snapState.isSnapped
    /\ snapState.element \notin liveTargets
    /\ highlighted = {snapState.element}

Adjusted(sm, snap) == IF snap.isSnapped THEN snap.snapPos ELSE sm

\* C15: within a hand frame the click and the drag use the post-snap adjusted
\* point: a click goes to the element under the adjusted point, and a dragged
\* panel moves by (adjusted point of this frame - adjusted point of the
\* previous processed frame), which is the jump to the target centre on a
\* frame that engages the snap and (0, 0) on a frame that stays pinned.
C15_ClickAndDragUseAdjustedPoint ==
    [][HandFrame =>
         LET adj == Adjusted(smoothedCursorPos', snapState')
             prev == Adjusted(smoothedCursorPos, snapState)
             p == activeDragElement'
         IN /\ cursorPos' = adj
            /\ ev'.click # "none" => ev'.click = ClickTarget(adj, liveTargets)
            /\ (isModularMode /\ p # NoElement) =>
                  /\ elementPositions'[p] =
                        Pt(elementPositions[p].x + adj.x - prev.x,
                           elementPositions[p].y + adj.y - prev.y)
                  /\ (~snapState.isSnapped /\ snapState'.isSnapped) =>
                        elementPositions'[p] =
                           Pt(elementPositions[p].x + snapState'.snapPos.x - prev.x,
                              elementPositions[p].y + snapState'.snapPos.y - prev.y)
                  /\ (snapState.isSnapped /\ snapState'.isSnapped) =>
                        elementPositions'[p] = elementPositions[p]]_vars

\* C15 witness: a fist frame in layout edit mode left the resolver Snapped
\* with the smoothed point off the target centre, and the dragged panel has
\* been carried away from its home position
C15_Witness ==
    /\ ev.kind = "hand" /\ ev.fist /\ isModularMode
    /\ activeDragElement # NoElement
    /\ snapState.isSnapped
    /\ cursorPos = snapState.snapPos
    /\ smoothedCursorPos # snapState.snapPos
    /\ elementPositions[activeDragElement] # Home[activeDragElement]

\* the panels the resize centering sets, as the claim lists them
Centered == {"visualizer", "chat", "tools"}

\* C16: a step changes the panel layout only if it is a drag step (a fist
\* frame in layout edit mode, changing the active panel alone) or the resize
\* centering (visualizer, chat and tools set to positions derived from the
\* window size, the other panels unchanged); every panel id stays in the
\* layout.
C16_LayoutWrittenByDragAndResizeOnly ==
    [][/\ elementPositions' # elementPositions =>
            \/ /\ HandFrame /\ isModularMode /\ ev'.fist
               /\ activeDragElement' # NoElement
               /\ \A q \in PanelIds \ {activeDragElement'} :
                     elementPositions'[q] = elementPositions[q]
            \/ /\ ev'.kind = "env"
               /\ cadData' = cadData /\ browserData' = browserData
               /\ isModularMode' = isModularMode
               /\ isHandTrackingEnabled' = isHandTrackingEnabled
               /\ isVideoOn' = isVideoOn
               /\ \A q \in Centered : elementPositions'[q] = Home[q]
               /\ \A q \in PanelIds \ Centered :
                     elementPositions'[q] = elementPositions[q]
       /\ DOMAIN elementPositions' = PanelIds]_vars

\* C16 witness: cad data and a browser frame have arrived and the layout
\* holds the cad panel where a drag left it, away from its initial position
C16_Witness ==
    /\ ev.kind = "env"
    /\ cadData /\ browserData
    /\ elementPositions["cad"] # Home["cad"]
    /\ \A q \in PanelIds \ {"cad"} : elementPositions[q] = Home[q]

\* C17: for any interleaving of drag writes and resize writes, once the
\* queued updates are applied the layout is the one obtained by applying
\* every write in the order issued (the position after the last reset plus
\* the later deltas), and the x and y parts of a delta arrive together.
C17_NoLayoutWriteLost ==
    pendingUpdates = <<>> => elementPositions = written

\* C17 witness: the queued writes have been applied and the visualizer has
\* moved along both axes, the cad panel not at all
C17_Witness ==
    /\ pendingUpdates = <<>>
    /\ elementPositions["visualizer"].x # Home["visualizer"].x
    /\ elementPositions["visualizer"].y # Home["visualizer"].y
    /\ elementPositions["cad"] = Home["cad"]

\* a step of the frame loop taken with the video on
Tick == isVideoOn /\ ev'.kind \in {"skip", "nohand", "hand"}

C20_PipelineOncePerDisplayFrame ==
    frame.runs <= 1

----------------------------------------------------------------------------
\* The mapper and the smoothing step under a held index tip.  The smoothed
\* point is a double in the source; here it is kept in sub-pixels, SubPx to
\* the pixel, and every step rounds to the nearest sub-pixel.

SubPx == 15625        \* sub-pixels to the pixel
MaxFrames == 80       \* frames followed under a held tip (SpecLerp)

\* the viewport of the held-tip scenario
Scenario == [innerWidth |-> 1920, innerHeight |-> 1080]

\* n / d rounded to the nearest integer
RoundDiv(n, d) == (2 * n + d) \div (2 * d)

\* a smoothing step that goes past the target
LerpSub_Overshoot(s, t) == s + RoundDiv((t - s) * (10 + lerpFactor), 10)

\* a smoothing step that always rounds upwards
LerpSub_Biased(s, t) == s + ((t - s) * lerpFactor + 10) \div 10

\* smoothed + (target - smoothed) * lerpFactor, in sub-pixels
LerpSub(s, t) == s + RoundDiv((t - s) * lerpFactor, 10)

\* index tips held still, in thousandths of the camera frame
HeldTips == {Pt(500, 500), Pt(250, 250), Pt(750, 600)}

\* where the smoothed point starts, in pixels
HeldStarts ==
    {Pt(x, y) : x \in {0, 958, 960, 963, 1920}, y \in {0, 540, 543, 756, 1080}}

\* targetX, targetY for an index tip
RawFor(tip) ==
    Pt(MapAxis(tip.x, cursorSensitivity, Scenario.innerWidth),
       MapAxis(tip.y, cursorSensitivity, Scenario.innerHeight))

\* one frame of the mapper and the smoothing step on the held tip
HeldFrame ==
    /\ held # NoInput
    /\ held[1].n < MaxFrames
    /\ LET h == held[1]
           raw == RawFor(h.tip)
       IN held' = <<[tip |-> h.tip,
                     smoothed |-> Pt(LerpSub(h.smoothed.x, raw.x * SubPx),
                                     LerpSub(h.smoothed.y, raw.y * SubPx)),
                     raw |-> <<raw>>,
                     n |-> h.n + 1]>>
    /\ UNCHANGED <<popup, storage, badge, connected, sockets, emitted, commands, starting, frame, written, pendingUpdates, browserData,
                   liveTargets, fistInput, fistOutput, cursorSensitivityRef,
                   isVideoOn, raf, handLandmarker, isHandTrackingEnabled,
                   isModularMode, cadData, engineVars, ev>>

InitLerp ==
    /\ InitApp
    /\ fistInput = NoInput
    /\ fistOutput = NoInput
    /\ held \in {<<[tip |-> t, smoothed |-> Pt(p.x * SubPx, p.y * SubPx),
                    raw |-> <<>>, n |-> 0]>> : t \in HeldTips, p \in HeldStarts}

NextLerp == HeldFrame

\* the held tip is processed frame after frame
SpecLerp == InitLerp /\ [][NextLerp]_vars /\ WF_vars(HeldFrame)

\* target - smoothed on one axis, in sub-pixels
HeldError(h, t, axis) == t[axis] * SubPx - h.smoothed[axis]

\* C22: with a 1920x1080 viewport, sensitivity 2.0 and the index tip held at
\* (0.5, 0.5), every frame computes raw = (960, 540); from any start each
\* frame multiplies the error on each axis by 0.8 (to the nearest sub-pixel)
\* without changing its sign, and the error eventually stays below 1px.
C22_HeldTipConverges ==
    /\ [][(held # NoInput /\ held' # held /\ held[1].tip = Pt(500, 500)) =>
            LET t == held'[1].raw[1]
            IN /\ t = Pt(960, 540)
               /\ \A axis \in {"x", "y"} :
                    LET e == HeldError(held[1], t, axis)
                        e2 == HeldError(held'[1], t, axis)
                    IN /\ Abs(10 * e2 - 8 * e) <= 5
                       /\ e >= 0 => e2 >= 0
                       /\ e <= 0 => e2 <= 0]_vars
    /\ <>[](held # NoInput /\ held[1].tip = Pt(500, 500) =>
              /\ held[1].raw # <<>>
              /\ \A axis \in {"x", "y"} :
                   Abs(HeldError(held[1], held[1].raw[1], axis)) < SubPx)

\* C22 witness: the smoothed point has come within 1px of (960, 540) from
\* the right and from above without reaching it
C22_Witness ==
    /\ held # NoInput
    /\ held[1].tip = Pt(500, 500)
    /\ held[1].raw = <<Pt(960, 540)>>
    /\ HeldError(held[1], Pt(960, 540), "x") < 0
    /\ HeldError(held[1], Pt(960, 540), "x") > 0 - SubPx
    /\ HeldError(held[1], Pt(960, 540), "y") > 0
    /\ HeldError(held[1], Pt(960, 540), "y") < SubPx

\* C23: a frame whose raw point equals the smoothed point leaves the smoothed
\* point unchanged, frame after frame.
C23_RestIsFixedPoint ==
    [][(held # NoInput /\ held' # held
          /\ \A axis \in {"x", "y"} :
               HeldError(held[1], held'[1].raw[1], axis) = 0) =>
         held'[1].smoothed = held[1].smoothed]_vars

\* C23 witness: several frames have run on a smoothed point that is still
\* exactly the raw point, away from the origin
C23_Witness ==
    /\ held # NoInput
    /\ held[1].n >= 3
    /\ held[1].raw = <<Pt(1920, 756)>>
    /\ held[1].smoothed = Pt(1920 * SubPx, 756 * SubPx)

\* the resolver state s is Snapped to target u
SnappedTo(s, u) == s.isSnapped /\ s.element = u

\* C24: with stationary targets, a hand frame that follows a frame which
\* unsnapped from a target snaps onto that target again only if the smoothed
\* point moved more than 50px between the two frames; and a hand frame whose
\* smoothed point is between 50px and 100px from a target's centre neither
\* snaps onto that target nor unsnaps from it.
C24_NoSnapFlicker ==
    [][HandFrame =>
         \A u \in TargetIds :
            /\ (ev.kind = "hand" /\ ev.released = u /\ SnappedTo(snapState', u)) =>
                  Dist2(smoothedCursorPos, smoothedCursorPos') >
                     SNAP_THRESHOLD * SNAP_THRESHOLD
            /\ (/\ Dist2(smoothedCursorPos', TargetCenter[u]) >=
                      SNAP_THRESHOLD * SNAP_THRESHOLD
                /\ Dist2(smoothedCursorPos', TargetCenter[u]) <=
                      UNSNAP_THRESHOLD * UNSNAP_THRESHOLD) =>
                  (SnappedTo(snapState, u) <=> SnappedTo(snapState', u))]_vars

\* C24 witness: a hand frame snapped onto the target that the hand frame
\* before it had unsnapped from
C24_Witness ==
    /\ ev.kind = "hand"
    /\ ev.again
    /\ snapState.isSnapped

\* panel position minus the last adjusted cursor point
GripOffset(p, positions, last) ==
    Pt(positions[p].x - last.x, positions[p].y - last.y)

\* C25: from the frame that claims a panel and for as long as the panel stays
\* claimed, every frame callback leaves (panel position - adjusted cursor
\* point) equal to (panel position - last adjusted cursor point) as it was
\* before the claiming frame, whether the frame snaps, unsnaps or finds no
\* landmarks.
C25_PanelFollowsRigidly ==
    [][\A p \in PanelIds :
         (/\ ev'.kind # "env"
          /\ activeDragElement \in {p, NoElement}
          /\ activeDragElement' = p) =>
            GripOffset(p, elementPositions', lastCursorPos') =
               GripOffset(p, elementPositions, lastCursorPos)]_vars

\* C26: switching layout edit mode off ends a drag and the controller is Idle
\* when the mode is switched on again, so the first frame processed with the
\* mode on moves a panel only after hit-testing the adjusted cursor point
\* into it.
C26_ModeOffEndsDrag ==
    [][/\ (isModularMode /\ ~isModularMode') => activeDragElement' = NoElement
       /\ (~isModularMode /\ isModularMode') => activeDragElement' = NoElement
       /\ (HandFrame /\ isModularMode /\ ~Dragging) =>
             \A p \in PanelIds :
                elementPositions'[p] # elementPositions[p] =>
                   InRect(cursorPos', PanelRect(p, elementPositions[p]))]_vars

----------------------------------------------------------------------------
\* Stopping the video: pinch and fist frames, layout edit mode, resize, the
\* asynchronous start, and the browser running every scheduled callback.

FrameHandStop == FrameHand(TickPts, {OpenHand, PinchHand, FistHand})

NextStop ==
    \/ FrameStopped
    \/ FrameNotReady
    \/ FrameSkip
    \/ FrameNoHand
    \/ FrameHandStop
    \/ RequestStart
    \/ StartResolved
    \/ StartFailed
    \/ StopVideo
    \/ ToggleHand
    \/ ToggleLayout
    \/ LandmarkerReady
    \/ Resize

\* a scheduled callback is eventually run
SpecStop == Init /\ [][NextStop]_vars /\ WF_vars(FrameStopped)

----------------------------------------------------------------------------
(* The extension bridge (service worker): extension_command handlers *)

MaxCommands == 2      \* extension_command messages received (SpecCommands)

\* every field a command can require is present
FullArgs == [url |-> TRUE, selector |-> TRUE, text |-> TRUE]

\* data.command and data.args of the commands received: every command name,
\* an unknown one, and commands with a required argument missing
CommandInputs ==
    {[command |-> c, args |-> FullArgs] :
        c \in {"list_tabs", "get_tab_content", "navigate", "scroll_page",
               "get_active_tab", "unknown_command"}}
    \cup {[command |-> "navigate", args |-> [FullArgs EXCEPT !.url = FALSE]],
          [command |-> "click_element",
           args |-> [FullArgs EXCEPT !.selector = FALSE]],
          [command |-> "fill_input", args |-> [FullArgs EXCEPT !.text = FALSE]]}

\* what the chrome API does for one command: it works, finds no tab, finds
\* no content, or rejects with an error whose message is set or empty
ChromeAnswers == {"ok", "no_tab", "no_content", "rejects", "rejects_blank"}

Returns(value) == [ok |-> TRUE, value |-> value]

Throws(message) == [ok |-> FALSE, message |-> message]

\* a rejection of the chrome API, passed on as the thrown error
ChromeError(chrome) ==
    Throws(IF chrome = "rejects" THEN "No tab with id" ELSE "")

\* resolveTabId followed by the rest of a command
WithTab(chrome, rest) ==
    IF chrome = "no_tab" THEN Throws("Nenhuma aba encontrada") ELSE rest

\* handleCommand: the outcome of a command under one answer of the chrome API
HandleCommand(command, args, chrome) ==
    CASE command = "list_tabs" ->
            IF chrome \in {"rejects", "rejects_blank"} THEN ChromeError(chrome)
            ELSE Returns("tabs")
      [] command = "get_active_tab" ->
            IF chrome \in {"rejects", "rejects_blank"} THEN ChromeError(chrome)
            ELSE IF chrome = "no_tab" THEN Throws("Nenhuma aba ativa encontrada")
            ELSE Returns("tab")
      [] command = "get_tab_content" ->
            WithTab(chrome,
               IF chrome \in {"rejects", "rejects_blank"} THEN ChromeError(chrome)
               ELSE IF chrome = "no_content"
               THEN Throws("Nao foi possivel extrair conteudo da aba")
               ELSE Returns("content"))
      [] command = "navigate" ->
            IF ~args.url THEN Throws("URL e obrigatoria para navigate")
            ELSE IF chrome \in {"rejects", "rejects_blank"} THEN ChromeError(chrome)
            ELSE Returns("tab_id, url")
      [] command = "click_element" ->
            WithTab(chrome,
               IF ~args.selector
               THEN Throws("selector e obrigatorio para click_element")
               ELSE IF chrome \in {"rejects", "rejects_blank"}
               THEN ChromeError(chrome)
               ELSE IF chrome = "no_content" THEN Returns("success: false")
               ELSE Returns("success: true"))
      [] command = "fill_input" ->
            WithTab(chrome,
               IF ~args.selector
               THEN Throws("selector e obrigatorio para fill_input")
               ELSE IF ~args.text THEN Throws("text e obrigatorio para fill_input")
               ELSE IF chrome \in {"rejects", "rejects_blank"}
               THEN ChromeError(chrome)
               ELSE IF chrome = "no_content" THEN Returns("success: false")
               ELSE Returns("success: true"))
      [] command = "scroll_page" ->
            WithTab(chrome,
               IF chrome \in {"rejects", "rejects_blank"} THEN ChromeError(chrome)
               ELSE IF chrome = "no_content" THEN Returns("success: false")
               ELSE Returns("success: true, scrollY"))
      [] OTHER -> Throws("Comando desconhecido")

\* the error text taken from the message alone
ErrorText_MessageOnly(message) == message

\* err.message || String(err)
ErrorText(message) == IF message # "" THEN message ELSE "Error"

\* the extension_result emitted for data once handleCommand has settled; a
\* null field is the empty sequence
ResultMessage(data, outcome) ==
    IF outcome.ok
    THEN [request_id |-> data.request_id, result |-> <<outcome.value>>,
          error |-> <<>>]
    ELSE [request_id |-> data.request_id, result |-> <<>>,
          error |-> <<ErrorText(outcome.message)>>]

\* request ids of the commands received so far
ReceivedIds == {commands[i].data.request_id : i \in 1..Len(commands)}

\* socket.on('extension_command'): the handler starts and awaits
\* handleCommand; the server numbers its requests
ReceiveCommand ==
    /\ Len(commands) < MaxCommands
    /\ \E in \in CommandInputs :
          commands' = Append(commands,
                             [data |-> [request_id |-> Len(commands) + 1,
                                        command |-> in.command, args |-> in.args],
                              settled |-> FALSE])
    /\ UNCHANGED <<popup, storage, badge, connected, sockets, emitted, held, starting, frame, written, pendingUpdates,
                   browserData, liveTargets, fistInput, fistOutput,
                   cursorSensitivityRef, isVideoOn, raf, handLandmarker,
                   isHandTrackingEnabled, isModularMode, cadData, engineVars,
                   ev>>

\* handleCommand settles for one of the handlers in flight, in any order, and
\* the handler emits its extension_result
CommandSettles ==
    /\ \E i \in 1..Len(commands), chrome \in ChromeAnswers :
          /\ ~commands[i].settled
          /\ commands' = [commands EXCEPT ![i].settled = TRUE]
          /\ emitted' = Append(emitted,
                ResultMessage(commands[i].data,
                   HandleCommand(commands[i].data.command,
                                 commands[i].data.args, chrome)))
    /\ UNCHANGED <<popup, storage, badge, connected, sockets, held, starting, frame, written, pendingUpdates,
                   browserData, liveTargets, fistInput, fistOutput,
                   cursorSensitivityRef, isVideoOn, raf, handLandmarker,
                   isHandTrackingEnabled, isModularMode, cadData, engineVars,
                   ev>>

NextCommands == ReceiveCommand \/ CommandSettles

\* every awaited chrome call settles
SpecCommands == Init /\ [][NextCommands]_vars /\ WF_vars(CommandSettles)

\* the extension_result messages emitted for request id
ResultsFor(id) == {k \in 1..Len(emitted) : emitted[k].request_id = id}

\* C28: every extension_result carries the request_id of a received command
\* and exactly one of result and error (a non-empty string); it is that
\* command's result or error; no command has more than one extension_result,
\* and every received command eventually has one.
C28_OneResultPerCommand ==
    /\ [](\A k \in 1..Len(emitted) :
            /\ (emitted[k].result = <<>>) # (emitted[k].error = <<>>)
            /\ emitted[k].error # <<"">>
            /\ \E i \in 1..Len(commands) :
                  /\ commands[i].settled
                  /\ commands[i].data.request_id = emitted[k].request_id
                  /\ \E chrome \in ChromeAnswers :
                        LET o == HandleCommand(commands[i].data.command,
                                               commands[i].data.args, chrome)
                        IN IF o.ok THEN emitted[k].result = <<o.value>>
                           ELSE emitted[k].result = <<>>)
    /\ [](\A i \in 1..Len(commands) :
            Cardinality(ResultsFor(commands[i].data.request_id)) =
               IF commands[i].settled THEN 1 ELSE 0)
    /\ \A id \in 1..MaxCommands :
          [](id \in ReceivedIds => <>(Cardinality(ResultsFor(id)) = 1))

\* C28 witness: two commands were in flight together and settled in the
\* opposite order, one with a result and one, a command missing a required
\* argument, with an error
C28_Witness ==
    /\ Len(commands) = 2 /\ Len(emitted) = 2
    /\ emitted[1].request_id = commands[2].data.request_id
    /\ emitted[1].result # <<>>
    /\ emitted[2].request_id = commands[1].data.request_id
    /\ commands[1].data.command = "navigate" /\ ~commands[1].data.args.url
    /\ emitted[2].error # <<>>

----------------------------------------------------------------------------
(* The extension: the bridge's connection, the badge, the stored task and
   the popup that shows them *)

MaxSockets == 3       \* connect() calls, the one at load included
MaxChanges == 2       \* storage change events waiting for the popup

\* everything outside the extension
appVars ==
    <<isVideoOn, raf, handLandmarker, isHandTrackingEnabled, isModularMode,
      cadData, engineVars, ev, cursorSensitivityRef, fistInput, fistOutput,
      liveTargets, browserData, pendingUpdates, written, frame, starting,
      held, commands, emitted>>

\* the badge texts written by updateBadge
BadgeOn == "filled dot"

BadgeOff == "hollow dot"

\* extension_task_status payloads
Tasks == {[label |-> "task", active |-> TRUE], [label |-> "task", active |-> FALSE]}

\* `socket`, the socket connect() created last
Current == Len(sockets)

\* connect() without the disconnect of the socket it replaces
Connect_KeepOld ==
    /\ Len(sockets) < MaxSockets
    /\ sockets' = Append(sockets, "connecting")
    /\ UNCHANGED <<connected, badge, storage, popup, appVars>>

\* connect(): socket.disconnect() closes the old socket, running its
\* 'disconnect' handler if it was connected; then io() creates the new one
Connect ==
    /\ Len(sockets) < MaxSockets
    /\ sockets' = Append([sockets EXCEPT ![Current] = "closed"], "connecting")
    /\ connected' = IF sockets[Current] = "connected" THEN FALSE ELSE connected
    /\ badge' = IF sockets[Current] = "connected" THEN BadgeOff ELSE badge
    /\ UNCHANGED <<storage, popup, appVars>>

\* a socket connects or reconnects: its 'connect' handler
SocketConnect ==
    /\ \E i \in 1..Len(sockets) :
          /\ sockets[i] \in {"connecting", "reconnecting"}
          /\ sockets' = [sockets EXCEPT ![i] = "connected"]
    /\ connected' = TRUE
    /\ badge' = BadgeOn
    /\ UNCHANGED <<storage, popup, appVars>>

\* a connected socket loses its connection and retries, or is disconnected
\* by the server and stays so: its 'disconnect' handler
SocketDisconnect ==
    /\ \E i \in 1..Len(sockets), after \in {"reconnecting", "disconnected"} :
          /\ sockets[i] = "connected"
          /\ sockets' = [sockets EXCEPT ![i] = after]
    /\ connected' = FALSE
    /\ badge' = BadgeOff
    /\ UNCHANGED <<storage, popup, appVars>>

\* 'extension_task_status' on a connected socket: the task is stored, and an
\* open popup is sent a change event when the stored value changed
TaskStatus ==
    /\ \E i \in 1..Len(sockets), data \in Tasks :
          /\ sockets[i] = "connected"
          /\ storage' = <<data>>
          /\ IF popup.open /\ storage # <<data>>
             THEN /\ Len(popup.changes) < MaxChanges
                  /\ popup' = [popup EXCEPT !.changes = Append(@, <<data>>)]
             ELSE popup' = popup
    /\ UNCHANGED <<sockets, connected, badge, appVars>>

\* applyTask: the visibility of the task box afterwards
ApplyTask(task) == task # NoInput

\* the popup opens: its script asks for the badge text and the stored task
\* and listens for storage changes
PopupOpen ==
    /\ ~popup.open
    /\ popup' = [open |-> TRUE, conn |-> "initial", taskVisible |-> FALSE,
                 badgeRead |-> TRUE, storageRead |-> TRUE, changes |-> <<>>]
    /\ UNCHANGED <<sockets, connected, badge, storage, appVars>>

PopupClose ==
    /\ popup.open
    /\ popup' = ClosedPopup
    /\ UNCHANGED <<sockets, connected, badge, storage, appVars>>

\* the getBadgeText callback: applyConnection(text === the connected badge)
BadgeCallback ==
    /\ popup.open /\ popup.badgeRead
    /\ popup' = [popup EXCEPT
                   !.badgeRead = FALSE,
                   !.conn = IF badge = BadgeOn THEN "connected" ELSE "disconnected",
                   !.taskVisible = IF badge = BadgeOn THEN @ ELSE FALSE]
    /\ UNCHANGED <<sockets, connected, badge, storage, appVars>>

\* the storage.local.get callback: applyTask when a task is stored
StorageCallback ==
    /\ popup.open /\ popup.storageRead
    /\ popup' = [popup EXCEPT
                   !.storageRead = FALSE,
                   !.taskVisible = IF storage # NoInput THEN ApplyTask(storage)
                                   ELSE @]
    /\ UNCHANGED <<sockets, connected, badge, storage, appVars>>

\* the storage.onChanged listener: applyTask(changes.extension_task.newValue)
ChangeEvent ==
    /\ popup.open /\ popup.changes # <<>>
    /\ popup' = [popup EXCEPT !.changes = Tail(@),
                              !.taskVisible = ApplyTask(Head(popup.changes))]
    /\ UNCHANGED <<sockets, connected, badge, storage, appVars>>

NextExtension ==
    \/ Connect
    \/ SocketConnect
    \/ SocketDisconnect
    \/ TaskStatus
    \/ PopupOpen
    \/ PopupClose
    \/ BadgeCallback
    \/ StorageCallback
    \/ ChangeEvent

SpecExtension == Init /\ [][NextExtension]_vars

\* sockets that connect() has not closed
Live == {i \in 1..Len(sockets) : sockets[i] # "closed"}

\* C29: whatever connect() calls and socket events have happened, no socket
\* other than the current one is live, the connected flag tells whether the
\* current socket is connected, and the badge shows connected exactly when
\* it is.
C29_FlagAndBadgeFollowCurrentSocket ==
    /\ Live \subseteq {Current}
    /\ connected <=> sockets[Current] = "connected"
    /\ badge = BadgeOn <=> sockets[Current] = "connected"

\* C29 witness: connect() replaced a socket twice, the current socket is
\* connected and the badge shows it
C29_Witness ==
    /\ Len(sockets) = 3
    /\ sockets[1] = "closed" /\ sockets[2] = "closed"
    /\ sockets[3] = "connected"
    /\ connected /\ badge = BadgeOn

\* C30: the popup never shows the task box while it shows the connection as
\* disconnected.
C30_NoTaskBoxWhileDisconnected ==
    ~(popup.open /\ popup.taskVisible /\ popup.conn = "disconnected")

====
